---- MODULE Spec2Model ----
(***************************************************************************)
(* Crawl orchestration and SEO scoring of mvp-backend:                     *)
(*   app/api/analysis.py          seo_analyze, analyze_page                *)
(*   app/services/seo_analyzer.py analyze_html, extract_seo_data,          *)
(*                                extract_links, calculate_seo_score       *)
(*   app/services/url_fetcher.py  fetch_url_content                        *)
(*                                                                         *)
(* A URL string is modelled by the record of the components urlparse       *)
(* splits it into (scheme, netloc, path, query, fragment); two URL strings *)
(* are equal exactly when their records are equal.  An HTML document is    *)
(* modelled by the list of its <a href> values and the on-page signals the *)
(* scorer reads.                                                           *)
(***************************************************************************)
EXTENDS Integers, Sequences, FiniteSets, TLC

(***************************************************************************)
(* Bounds of the model.                                                    *)
(***************************************************************************)
\* analysis.py:204 sets batch_size = 10.  The model runs the same loop with
\* a smaller batch so that several batches, over-filled batches and
\* intra-batch links all occur over a small URL universe.
batch_size == 2

\* largest max_pages a request carries; the request model accepts any int and
\* the model draws max_pages from 0..MaxMaxPages
MaxMaxPages == 4

\* largest number of <img> elements without alt text on a scored document
MaxWithoutAlt == 6

\* largest number of plain internal links on a document handed to the link
\* functions
MaxPlainLinks == 27

\* largest number of pieces of a URL string handed to a normalization
MaxUrlLen == 4

\* seo_analyzer.py:296  list(internal_urls)[:25]
InternalUrlCap == 25

(***************************************************************************)
(* URLs and hrefs.                                                         *)
(***************************************************************************)
Url(netloc, path, query, fragment) ==
    [scheme |-> "https", netloc |-> netloc, path |-> path,
     query |-> query, fragment |-> fragment]

\* the final extension of a path, as the regex r"\.(...)$" sees it
PathExt(path) ==
    CASE path = "/s.css"  -> "css"
      [] path = "/f.woff" -> "woff"
      [] path = "/I.PNG"  -> "PNG"
      [] OTHER            -> ""

\* re.I: the match ignores case
Lower(ext) ==
    CASE ext = "PNG" -> "png"
      [] OTHER       -> ext

\* href values of <a href=...> elements.  kind "abs" is an absolute URL,
\* "rel" a root-relative reference "/path?query#fragment", "anchor" a
\* "#..." reference, "js" a "javascript:..." reference, "empty" is "".
AbsHref(netloc, path, query, fragment) ==
    [kind |-> "abs", netloc |-> netloc, path |-> path,
     query |-> query, fragment |-> fragment]

RelHref(path, query, fragment) ==
    [kind |-> "rel", netloc |-> "", path |-> path,
     query |-> query, fragment |-> fragment]

SpecialHref(kind) ==
    [kind |-> kind, netloc |-> "", path |-> "", query |-> "", fragment |-> ""]

\* href values every page of the crawled site carries: a link into the page
\* itself, a stylesheet and a link to another host
FixedHrefs ==
    { SpecialHref("anchor"),
      AbsHref("h", "/s.css", "", ""),
      AbsHref("x", "/a", "", "") }

\* href values a page of the crawled site may carry besides: a page with a
\* query, the same with a fragment, the URL the site redirects to / and the
\* URL / itself
ContentHrefs ==
    { AbsHref("h", "/a", "q=1", ""),
      AbsHref("h", "/a", "q=1", "top"),
      RelHref("/old", "", ""),
      AbsHref("h", "/", "", "") }

\* urljoin(base_url, href) followed by urlparse
urljoin(base, href) ==
    CASE href.kind = "abs" ->
            Url(href.netloc, href.path, href.query, href.fragment)
      [] href.kind = "rel" ->
            Url(base.netloc, href.path, href.query, href.fragment)
      [] href.kind = "anchor" ->
            Url(base.netloc, base.path, base.query, "top")
      [] OTHER -> base

\* "not href or href.startswith('#') or href.startswith('javascript:')"
SkipHref(href) == href.kind \in {"empty", "anchor", "js"}

(***************************************************************************)
(* Documents: what the parser finds in a fetched page.                     *)
(*   links        the href values of the <a href> elements                 *)
(*   title        soup.title.string.strip(), "" when there is none         *)
(*   description  content of <meta name="description">, "" when none       *)
(*   h1           number of <h1> elements                                  *)
(*   withoutAlt   number of <img> without a non-empty alt                  *)
(*   word_count   number of content words extract_keywords counts          *)
(*   canonical    whether <link rel="canonical"> carries an href           *)
(***************************************************************************)
Title70 == "0123456789012345678901234567890123456789012345678901234567890123456789"

Desc30 == "012345678901234567890123456789"

\* The on-page signals the site serves under each path; the link list of a
\* page is drawn from LinkSets each time the page is fetched.
SiteSignals(path) ==
    CASE path = "/" ->
            [title |-> Title70, description |-> "", h1 |-> 0,
             withoutAlt |-> 3, word_count |-> 120, canonical |-> FALSE]
      [] path = "/a" ->
            [title |-> "A well formed page title", description |-> Title70,
             h1 |-> 1, withoutAlt |-> 0, word_count |-> 300, canonical |-> TRUE]
      [] path = "/b" ->
            [title |-> "Short", description |-> Desc30, h1 |-> 2,
             withoutAlt |-> 7, word_count |-> 299, canonical |-> TRUE]
      [] OTHER ->
            [title |-> "", description |-> "", h1 |-> 0,
             withoutAlt |-> 0, word_count |-> 0, canonical |-> FALSE]

\* the href values of one document
LinkSets == { FixedHrefs \cup L : L \in SUBSET ContentHrefs }

\* the documents a fetch of url can return
Docs(url) ==
    LET s == SiteSignals(url.path)
    IN  { [links |-> L, title |-> s.title, description |-> s.description,
           h1 |-> s.h1, withoutAlt |-> s.withoutAlt,
           word_count |-> s.word_count, canonical |-> s.canonical] :
             L \in LinkSets }

Issue(type, label, severity) ==
    [type |-> type, label |-> label, severity |-> severity]

Min(a, b) == IF a < b THEN a ELSE b

Max(a, b) == IF a > b THEN a ELSE b

(***************************************************************************)
(* seo_analyzer.py: the two scorers.  Each rule group contributes a        *)
(* deduction and at most one issue; the groups are evaluated in order.     *)
(***************************************************************************)
\* mutant: a title that is too long is penalised without an issue
TitleRuleSilent(title) ==
    IF title = "" THEN
        [penalty |-> 20, issues |-> <<Issue("title", "Missing Title Tag", "High")>>]
    ELSE IF Len(title) > 60 THEN
        [penalty |-> 5, issues |-> <<>>]
    ELSE IF Len(title) < 10 THEN
        [penalty |-> 5, issues |-> <<Issue("title", "Title Too Short", "Medium")>>]
    ELSE [penalty |-> 0, issues |-> <<>>]

TitleRule(title) ==
    IF title = "" THEN
        [penalty |-> 20, issues |-> <<Issue("title", "Missing Title Tag", "High")>>]
    ELSE IF Len(title) > 60 THEN
        [penalty |-> 5, issues |-> <<Issue("title", "Title Too Long", "Medium")>>]
    ELSE IF Len(title) < 10 THEN
        [penalty |-> 5, issues |-> <<Issue("title", "Title Too Short", "Medium")>>]
    ELSE [penalty |-> 0, issues |-> <<>>]

\* mutant: a missing description costs 10
DescriptionRuleCheap(description) ==
    IF description = "" THEN
        [penalty |-> 10,
         issues |-> <<Issue("description", "Missing Meta Description", "High")>>]
    ELSE IF Len(description) > 160 THEN
        [penalty |-> 3,
         issues |-> <<Issue("description", "Description Too Long", "Low")>>]
    ELSE IF Len(description) < 50 THEN
        [penalty |-> 5,
         issues |-> <<Issue("description", "Description Too Short", "Medium")>>]
    ELSE [penalty |-> 0, issues |-> <<>>]

\* description group of calculate_seo_score
DescriptionRule(description) ==
    IF description = "" THEN
        [penalty |-> 20,
         issues |-> <<Issue("description", "Missing Meta Description", "High")>>]
    ELSE IF Len(description) > 160 THEN
        [penalty |-> 3,
         issues |-> <<Issue("description", "Description Too Long", "Low")>>]
    ELSE IF Len(description) < 50 THEN
        [penalty |-> 5,
         issues |-> <<Issue("description", "Description Too Short", "Medium")>>]
    ELSE [penalty |-> 0, issues |-> <<>>]

\* description group of extract_seo_data (it has no too-short branch)
QuickDescriptionRule(description) ==
    IF description = "" THEN
        [penalty |-> 20,
         issues |-> <<Issue("description", "Missing Meta Description", "High")>>]
    ELSE IF Len(description) > 160 THEN
        [penalty |-> 3,
         issues |-> <<Issue("description", "Description Too Long", "Low")>>]
    ELSE [penalty |-> 0, issues |-> <<>>]

\* mutant: a single h1 adds 15 to the score
H1RuleBonus(h1) ==
    IF h1 = 0 THEN
        [penalty |-> 15, issues |-> <<Issue("h1", "Missing H1 Heading", "High")>>]
    ELSE IF h1 > 1 THEN
        [penalty |-> 5, issues |-> <<Issue("h1", "Multiple H1 Tags", "Medium")>>]
    ELSE [penalty |-> 0 - 15, issues |-> <<>>]

H1Rule(h1) ==
    IF h1 = 0 THEN
        [penalty |-> 15, issues |-> <<Issue("h1", "Missing H1 Heading", "High")>>]
    ELSE IF h1 > 1 THEN
        [penalty |-> 5, issues |-> <<Issue("h1", "Multiple H1 Tags", "Medium")>>]
    ELSE [penalty |-> 0, issues |-> <<>>]

\* mutant: the image deduction has no cap
ImagesRuleUncapped(withoutAlt) ==
    IF withoutAlt > 0 THEN
        [penalty |-> withoutAlt * 2,
         issues |-> <<Issue("images", "Missing Alt Text", "Medium")>>]
    ELSE [penalty |-> 0, issues |-> <<>>]

ImagesRule(withoutAlt) ==
    IF withoutAlt > 0 THEN
        [penalty |-> Min(10, withoutAlt * 2),
         issues |-> <<Issue("images", "Missing Alt Text", "Medium")>>]
    ELSE [penalty |-> 0, issues |-> <<>>]

\* mutant: 300 words are thin content too
ContentRuleInclusive(word_count) ==
    IF word_count <= 300 THEN
        [penalty |-> 10, issues |-> <<Issue("content", "Thin Content", "Medium")>>]
    ELSE [penalty |-> 0, issues |-> <<>>]

ContentRule(word_count) ==
    IF word_count < 300 THEN
        [penalty |-> 10, issues |-> <<Issue("content", "Thin Content", "Medium")>>]
    ELSE [penalty |-> 0, issues |-> <<>>]

CanonicalRule(canonical) ==
    IF ~canonical THEN
        [penalty |-> 5,
         issues |-> <<Issue("canonical", "Missing Canonical Tag", "Low")>>]
    ELSE [penalty |-> 0, issues |-> <<>>]

calculate_seo_score(doc) ==
    LET t == TitleRule(doc.title)
        d == DescriptionRule(doc.description)
        h == H1Rule(doc.h1)
        i == ImagesRule(doc.withoutAlt)
        w == ContentRule(doc.word_count)
        c == CanonicalRule(doc.canonical)
        score == 100 - t.penalty - d.penalty - h.penalty
                     - i.penalty - w.penalty - c.penalty
    IN  [score |-> Max(0, Min(100, score)),
         issues |-> t.issues \o d.issues \o h.issues
                      \o i.issues \o w.issues \o c.issues]

extract_seo_data(doc) ==
    LET t == TitleRule(doc.title)
        d == QuickDescriptionRule(doc.description)
        h == H1Rule(doc.h1)
        i == ImagesRule(doc.withoutAlt)
        score == 100 - t.penalty - d.penalty - h.penalty - i.penalty
        issues_list == t.issues \o d.issues \o h.issues \o i.issues
    IN  [title |-> doc.title,
         score |-> Max(0, score),
         issue_count |-> Len(issues_list),
         issue_details |-> issues_list]

(***************************************************************************)
(* Link extraction.                                                        *)
(***************************************************************************)
\* seo_analyzer.py:285, the asset extensions extract_links skips
LinkAssetExts ==
    {"jpg", "jpeg", "png", "gif", "css", "js", "pdf", "svg", "ico", "xml"}

\* analysis.py:170, the asset extensions analyze_page skips
PageAssetExts ==
    {"jpg", "jpeg", "png", "gif", "css", "js", "pdf", "svg", "ico", "xml",
     "woff", "woff2", "ttf", "eot"}

\* re.search(r"\.(e1|e2|...)$", path, re.I)
AssetMatch(exts, path) == Lower(PathExt(path)) \in exts

\* the set internal_urls that extract_links builds: the joined URL is added
\* as it is
internal_urls(doc, base_url) ==
    { urljoin(base_url, href) :
        href \in { l \in doc.links :
                     /\ ~SkipHref(l)
                     /\ urljoin(base_url, l).netloc = base_url.netloc
                     /\ ~AssetMatch(LinkAssetExts, urljoin(base_url, l).path) } }

RECURSIVE KSubsets(_, _)
\* the subsets of S that have k elements
KSubsets(S, k) ==
    IF k = 0 THEN {{}}
    ELSE UNION { { T \cup {x} : T \in KSubsets(S \ {x}, k - 1) } : x \in S }

\* list(internal_urls)[:25]: the first 25 elements in the set's iteration
\* order, which is any order: all of them but any len - 25
extract_links(doc, base_url) ==
    LET all == internal_urls(doc, base_url)
        kept == Min(InternalUrlCap, Cardinality(all))
    IN  { all \ D : D \in KSubsets(all, Cardinality(all) - kept) }

\* analysis.py:172-174  scheme://netloc path ?query
clean_url(parsed) ==
    Url(parsed.netloc, parsed.path, parsed.query, "")

\* the set discovered_urls that analyze_page builds
discovered_urls(doc, page_url) ==
    { clean_url(urljoin(page_url, href)) :
        href \in { l \in doc.links :
                     /\ ~SkipHref(l)
                     /\ urljoin(page_url, l).netloc = page_url.netloc
                     /\ ~AssetMatch(PageAssetExts, urljoin(page_url, l).path) } }

\* analyze_html: the fields of the aggregate the crawl and the claims read;
\* internalUrls ranges over the lists extract_links can return
analyze_html(doc, url, internalUrls) ==
    [url |-> url,
     title |-> doc.title,
     internalUrls |-> internalUrls,
     score |-> calculate_seo_score(doc).score,
     issues |-> calculate_seo_score(doc).issues,
     crawledPages |-> <<>>]

\* every order in which the elements of a finite set can be listed
Orders(S) ==
    { s \in [1..Cardinality(S) -> S] :
        \A i, j \in 1..Cardinality(S) : i # j => s[i] # s[j] }

Range(s) == { s[i] : i \in 1..Len(s) }

(***************************************************************************)
(* State of one POST /seo/analyze request (seo_analyze).                   *)
(***************************************************************************)
VARIABLES
    pc,              \* where the handler stands
    request,         \* SEOAnalyzeRequest: url, deep_scan, max_pages
    final_url,       \* fetch_result["final_url"] of the seed fetch
    seo_data,        \* analyze_html(html_content, final_url)
    crawled_urls,    \* set of URLs
    pages_to_crawl,  \* list of URLs
    crawled_pages,   \* list of page_data
    tasks,           \* the URLs of the analyze_page tasks handed to gather
    results,         \* what each task has returned, in task order
    merge_i,         \* position of "for result in results"
    fetch_log,       \* every URL passed to fetch_url_content, in order
    response,        \* what the request has returned
    site,            \* for each path, the link lists the site may serve
    run,             \* the number of the request against this site
    first_run,       \* the (url, score) pairs the first request returned
    html,            \* the document handed to the scorers
    seed_result,     \* its page entry when analyzed as the seed
    page_result,     \* its page entry when analyzed as a crawled page
    arg,             \* the argument of a function called on its own
    ret              \* what the function has returned

\* what no step of the handler assigns
aux == <<site, run, first_run, html, seed_result, page_result, arg, ret>>

vars == <<pc, request, final_url, seo_data, crawled_urls, pages_to_crawl,
          crawled_pages, tasks, results, merge_i, fetch_log, response,
          site, run, first_run, html, seed_result, page_result, arg, ret>>

NoUrl == Url("", "", "", "")

NoData ==
    [url |-> NoUrl, title |-> "", internalUrls |-> {}, score |-> 0,
     issues |-> <<>>, crawledPages |-> <<>>]

NoResponse == [kind |-> "none", status_code |-> 0, data |-> NoData]

\* the URL a request carries; the site redirects it
RequestUrls == { Url("h", "/old", "", "") }

\* fetch_url_content follows redirects: str(response.url).  The site
\* redirects /old to /.
FinalUrl(url) ==
    IF url.path = "/old" THEN [url EXCEPT !.path = "/"] ELSE url

\* a task whose fetch has not resolved yet
Pending(page_url) ==
    [page_data |-> [url |-> page_url, status |-> "pending"],
     discovered_urls |-> {}]

InFlight == { i \in 1..Len(results) : results[i].page_data.status = "pending" }

\* the paths under which the site serves a page
SitePaths == {"/", "/a"}

\* a site whose pages may change between any two fetches
ChangingSite == [p \in SitePaths |-> LinkSets]

\* the documents a fetch that ended at url can return from the site
Served(url) == { doc \in Docs(url) : doc.links \in site[url.path] }

\* no document, no page entry
NoHtml ==
    [links |-> {}, title |-> "", description |-> "", h1 |-> 0,
     withoutAlt |-> 0, word_count |-> 0, canonical |-> FALSE]

NoPage == [url |-> NoUrl, status |-> "none"]

\* no function has been called, none has returned
NoArg == [fn |-> "none"]

NoRet == [fn |-> "none"]

\* the handler's variables before "try" (analysis.py:107-116)
Start ==
    /\ pc = "start"
    /\ final_url = NoUrl
    /\ seo_data = NoData
    /\ crawled_urls = {}
    /\ pages_to_crawl = <<>>
    /\ crawled_pages = <<>>
    /\ tasks = <<>>
    /\ results = <<>>
    /\ merge_i = 0
    /\ fetch_log = <<>>
    /\ response = NoResponse

Init ==
    /\ Start
    /\ request \in [url : RequestUrls, deep_scan : BOOLEAN,
                    max_pages : 0..MaxMaxPages]
    /\ site = ChangingSite
    /\ run = 1
    /\ first_run = {}
    /\ html = NoHtml
    /\ seed_result = NoPage
    /\ page_result = NoPage
    /\ arg = NoArg
    /\ ret = NoRet

\* analysis.py:117, the handler awaits the seed fetch
SeedFetch ==
    /\ pc = "start"
    /\ pc' = "seed_fetch"
    /\ fetch_log' = Append(fetch_log, request.url)
    /\ UNCHANGED <<request, final_url, seo_data, crawled_urls, pages_to_crawl,
                   crawled_pages, tasks, results, merge_i, response>>
    /\ UNCHANGED aux

\* analysis.py:236-240, the seed fetch (or the seed's analysis) raised
SeedFail ==
    /\ pc = "seed_fetch"
    /\ pc' = "failed"
    /\ response' = [kind |-> "error", status_code |-> 500, data |-> NoData]
    /\ UNCHANGED <<request, final_url, seo_data, crawled_urls, pages_to_crawl,
                   crawled_pages, tasks, results, merge_i, fetch_log>>
    /\ UNCHANGED aux

\* analysis.py:133-140
main_page(data, url) ==
    [url |-> url,
     status |-> "200",
     score |-> data.score,
     issues |-> Len(data.issues),
     title |-> IF data.title # "" THEN data.title ELSE "Main Page",
     issueDetails |-> data.issues]

\* mutant: the crawl starts with an empty crawled_urls
SeedVisitedEmpty(url) == {}

\* analysis.py:128, "crawled_urls = {final_url}"
SeedVisited(url) == {url}

\* analysis.py:125 and 129, "list(initial_urls - crawled_urls)": the elements
\* of the difference in the set's iteration order, which is any order
InitialFrontier(internalUrls, visited) == Orders(internalUrls \ visited)

\* analysis.py:118-141 (deep_scan) and 118-123, 234 (no deep_scan)
SeedOk ==
    /\ pc = "seed_fetch"
    /\ \E doc \in Served(FinalUrl(request.url)) :
       \E internalUrls \in extract_links(doc, FinalUrl(request.url)) :
         LET url == FinalUrl(request.url)
             data == analyze_html(doc, url, internalUrls)
         IN  /\ final_url' = url
             /\ seo_data' = data
             /\ IF request.deep_scan
                THEN /\ crawled_urls' = SeedVisited(url)
                     /\ pages_to_crawl' \in InitialFrontier(data.internalUrls,
                                                             crawled_urls')
                     /\ crawled_pages' = <<main_page(data, url)>>
                     /\ pc' = "loop"
                     /\ UNCHANGED response
                ELSE /\ pc' = "done"
                     /\ response' = [kind |-> "ok", status_code |-> 200,
                                     data |-> data]
                     /\ UNCHANGED <<crawled_urls, pages_to_crawl, crawled_pages>>
    /\ UNCHANGED <<request, tasks, results, merge_i, fetch_log>>
    /\ UNCHANGED aux

\* mutant: the loop condition compares with <=
LoopCondInclusive(frontier, pages, max_pages) ==
    Len(frontier) > 0 /\ Len(pages) <= max_pages

\* analysis.py:206, the loop condition
LoopCond(frontier, pages, max_pages) ==
    Len(frontier) > 0 /\ Len(pages) < max_pages

\* mutant: the batch is the whole queue
BatchWhole(frontier) == frontier

\* analysis.py:208
Batch(frontier) == SubSeq(frontier, 1, Min(batch_size, Len(frontier)))

\* mutant: the batch is not removed from the queue
RestKeepsBatch(frontier) == frontier

\* analysis.py:209
Rest(frontier) == SubSeq(frontier, Min(batch_size, Len(frontier)) + 1, Len(frontier))

\* mutant: the batch is not filtered by crawled_urls
TasksUnfiltered(batch, visited) == batch

\* analysis.py:212, "[analyze_page(url) for url in batch if url not in crawled_urls]"
Tasks(batch, visited) ==
    LET fresh(u) == u \notin visited
    IN  SelectSeq(batch, fresh)

\* mutant: the loop goes on while the queue is not empty, whatever the number
\* of pages crawled
NextBatchIgnoresCap ==
    /\ pc = "loop"
    /\ Len(pages_to_crawl) > 0
    /\ tasks' = Tasks(Batch(pages_to_crawl), crawled_urls)
    /\ pages_to_crawl' = Rest(pages_to_crawl)
    /\ results' = [i \in 1..Len(tasks') |-> Pending(tasks'[i])]
    /\ fetch_log' = fetch_log \o tasks'
    /\ merge_i' = 0
    /\ pc' = "gather"
    /\ UNCHANGED <<request, final_url, seo_data, crawled_urls, crawled_pages,
                   response>>
    /\ UNCHANGED aux

\* analysis.py:206-213, one more batch is taken and its tasks are started
NextBatch ==
    /\ pc = "loop"
    /\ LoopCond(pages_to_crawl, crawled_pages, request.max_pages)
    /\ tasks' = Tasks(Batch(pages_to_crawl), crawled_urls)
    /\ pages_to_crawl' = Rest(pages_to_crawl)
    /\ results' = [i \in 1..Len(tasks') |-> Pending(tasks'[i])]
    /\ fetch_log' = fetch_log \o tasks'
    /\ merge_i' = 0
    /\ pc' = "gather"
    /\ UNCHANGED <<request, final_url, seo_data, crawled_urls, crawled_pages,
                   response>>
    /\ UNCHANGED aux

\* mutant: the aggregate is returned without the crawled pages
LoopExitDropsPages ==
    /\ pc = "loop"
    /\ ~LoopCond(pages_to_crawl, crawled_pages, request.max_pages)
    /\ response' = [kind |-> "ok", status_code |-> 200, data |-> seo_data]
    /\ pc' = "done"
    /\ UNCHANGED <<request, final_url, seo_data, crawled_urls, pages_to_crawl,
                   crawled_pages, tasks, results, merge_i, fetch_log>>
    /\ UNCHANGED aux

\* analysis.py:232-234, the loop is left and the aggregate is returned
LoopExit ==
    /\ pc = "loop"
    /\ ~LoopCond(pages_to_crawl, crawled_pages, request.max_pages)
    /\ seo_data' = [seo_data EXCEPT !.crawledPages = crawled_pages]
    /\ response' = [kind |-> "ok", status_code |-> 200, data |-> seo_data']
    /\ pc' = "done"
    /\ UNCHANGED <<request, final_url, crawled_urls, pages_to_crawl,
                   crawled_pages, tasks, results, merge_i, fetch_log>>
    /\ UNCHANGED aux

\* analysis.py:179-189, what analyze_page returns for a page it could load
PageOk(page_url, doc) ==
    [page_data |->
        [url |-> page_url,
         status |-> "200",
         score |-> extract_seo_data(doc).score,
         issues |-> extract_seo_data(doc).issue_count,
         title |-> IF extract_seo_data(doc).title # ""
                   THEN extract_seo_data(doc).title ELSE "Untitled Page",
         issueDetails |-> extract_seo_data(doc).issue_details],
     discovered_urls |-> discovered_urls(doc, page_url)]

\* mutant: the error result counts no issue
PageErrorNoIssue(page_url) ==
    [page_data |->
        [url |-> page_url,
         status |-> "error",
         score |-> 0,
         issues |-> 0,
         title |-> "Failed to load"],
     discovered_urls |-> {}]

\* analysis.py:190-200, what analyze_page returns when anything raised
PageError(page_url) ==
    [page_data |->
        [url |-> page_url,
         status |-> "error",
         score |-> 0,
         issues |-> 1,
         title |-> "Failed to load"],
     discovered_urls |-> {}]

\* mutant: the task itself marks its URL as crawled
TaskOkWrites ==
    /\ pc = "gather"
    /\ \E i \in InFlight : \E doc \in Served(FinalUrl(tasks[i])) :
         /\ results' = [results EXCEPT ![i] = PageOk(tasks[i], doc)]
         /\ crawled_urls' = crawled_urls \cup {tasks[i]}
    /\ UNCHANGED <<pc, request, final_url, seo_data, pages_to_crawl,
                   crawled_pages, tasks, merge_i, fetch_log, response>>
    /\ UNCHANGED aux

\* one task of the batch in flight gets its page and analyzes it
TaskOk ==
    /\ pc = "gather"
    /\ \E i \in InFlight : \E doc \in Served(FinalUrl(tasks[i])) :
         results' = [results EXCEPT ![i] = PageOk(tasks[i], doc)]
    /\ UNCHANGED <<pc, request, final_url, seo_data, crawled_urls,
                   pages_to_crawl, crawled_pages, tasks, merge_i, fetch_log,
                   response>>
    /\ UNCHANGED aux

\* mutant: analyze_page does not catch, the exception leaves gather and the
\* handler answers 500
TaskFailAborts ==
    /\ pc = "gather"
    /\ InFlight # {}
    /\ pc' = "failed"
    /\ response' = [kind |-> "error", status_code |-> 500, data |-> NoData]
    /\ UNCHANGED <<request, final_url, seo_data, crawled_urls, pages_to_crawl,
                   crawled_pages, tasks, results, merge_i, fetch_log>>
    /\ UNCHANGED aux

\* the fetch or the analysis of one task of the batch in flight raises
TaskFail ==
    /\ pc = "gather"
    /\ \E i \in InFlight :
         results' = [results EXCEPT ![i] = PageError(tasks[i])]
    /\ UNCHANGED <<pc, request, final_url, seo_data, crawled_urls,
                   pages_to_crawl, crawled_pages, tasks, merge_i, fetch_log,
                   response>>
    /\ UNCHANGED aux

\* analysis.py:213, gather returns once every task has returned
GatherReturn ==
    /\ pc = "gather"
    /\ InFlight = {}
    /\ IF Len(results) = 0
       THEN pc' = "loop" /\ merge_i' = 0 /\ tasks' = <<>>
       ELSE pc' = "merge" /\ merge_i' = 1 /\ tasks' = tasks
    /\ UNCHANGED <<request, final_url, seo_data, crawled_urls, pages_to_crawl,
                   crawled_pages, results, fetch_log, response>>
    /\ UNCHANGED aux

\* mutant: a discovered URL is appended whether or not it is queued already
NewUrlsRequeue(found, visited, frontier) ==
    { u \in found : u \notin visited }

\* analysis.py:224-226, the new URLs appended to the queue, listed in the
\* order in which the set discovered_urls is iterated
NewUrls(found, visited, frontier) ==
    { u \in found : u \notin visited /\ u \notin Range(frontier) }

\* mutant: the new URLs are put in front of the queue
EnqueueFront(frontier, order) == order \o frontier

\* analysis.py:226, "pages_to_crawl.append(new_url)" for each new URL in turn
Enqueue(frontier, order) == frontier \o order

\* mutant: the merged page is not added to crawled_urls
AddVisitedNoop(visited, url) == visited

\* analysis.py:221
AddVisited(visited, url) == visited \cup {url}

\* analysis.py:229, the break of the merge loop
CapReached(pages, max_pages) == Len(pages) >= max_pages

\* analysis.py:215-230, one iteration of "for result in results".  When the
\* for loop is left, tasks and results are dead (the next iteration of the
\* while loop overwrites them) and the model resets them.
MergeResult ==
    /\ pc = "merge"
    /\ merge_i <= Len(results)
    /\ LET result == results[merge_i]
       IN  /\ crawled_pages' = Append(crawled_pages, result.page_data)
           /\ crawled_urls' = AddVisited(crawled_urls, result.page_data.url)
           /\ \E order \in Orders(NewUrls(result.discovered_urls,
                                          crawled_urls', pages_to_crawl)) :
                pages_to_crawl' = Enqueue(pages_to_crawl, order)
           /\ IF CapReached(crawled_pages', request.max_pages)
                 \/ merge_i = Len(results)
              THEN /\ pc' = "loop"
                   /\ merge_i' = 0
                   /\ tasks' = <<>>
                   /\ results' = <<>>
              ELSE /\ pc' = "merge"
                   /\ merge_i' = merge_i + 1
                   /\ UNCHANGED <<tasks, results>>
    /\ UNCHANGED <<request, final_url, seo_data, fetch_log, response>>
    /\ UNCHANGED aux

Next ==
    \/ SeedFetch
    \/ SeedFail
    \/ SeedOk
    \/ NextBatch
    \/ LoopExit
    \/ TaskOk
    \/ TaskFail
    \/ GatherReturn
    \/ MergeResult

Spec == Init /\ [][Next]_vars

\* Scheduling: the event loop runs the handler whenever it can continue, and
\* every fetch returns or raises within its timeout (url_fetcher.py:10, 31).
FairSpec == Spec /\ WF_vars(Next)

(***************************************************************************)
(* The scorers on their own: one document is analyzed as the seed          *)
(* (analyze_html, calculate_seo_score) and as a crawled page               *)
(* (analyze_page, extract_seo_data).                                       *)
(***************************************************************************)
RECURSIVE Chars(_)
\* a string of n characters
Chars(n) ==
    IF n = 0 THEN ""
    ELSE IF n >= 10 THEN Chars(n - 10) \o "0123456789"
    ELSE Chars(n - 1) \o "x"

\* title lengths around the limits 10 and 60 of the title rule
TitleLens == {0, 9, 10, 60, 61, 70}

\* description lengths around the limits 50 and 160 of the description rule
DescriptionLens == {0, 49, 50, 160, 161}

\* numbers of <h1> elements around the limits of the h1 rule
H1Counts == {0, 1, 2}

\* word counts around the limit 300 of the content rule
WordCounts == {0, 299, 300}

\* the documents handed to the scorers
ScoreDocs ==
    { [links |-> FixedHrefs, title |-> Chars(t), description |-> Chars(d),
       h1 |-> h, withoutAlt |-> n, word_count |-> w, canonical |-> c] :
         t \in TitleLens, d \in DescriptionLens, h \in H1Counts,
         n \in 0..MaxWithoutAlt, w \in WordCounts, c \in BOOLEAN }

\* the URL the document was fetched from
ScoreUrl == Url("h", "/", "", "")

ScoreInit ==
    /\ Start
    /\ request = [url |-> ScoreUrl, deep_scan |-> TRUE, max_pages |-> 1]
    /\ site = ChangingSite
    /\ run = 1
    /\ first_run = {}
    /\ html \in ScoreDocs
    /\ seed_result = NoPage
    /\ page_result = NoPage
    /\ arg = NoArg
    /\ ret = NoRet

\* analysis.py:121, 133-140: the document is the seed
AnalyzeAsSeed ==
    /\ seed_result = NoPage
    /\ \E internalUrls \in extract_links(html, ScoreUrl) :
         seed_result' = main_page(analyze_html(html, ScoreUrl, internalUrls),
                                  ScoreUrl)
    /\ UNCHANGED <<pc, request, final_url, seo_data, crawled_urls,
                   pages_to_crawl, crawled_pages, tasks, results, merge_i,
                   fetch_log, response, site, run, first_run, html,
                   page_result, arg, ret>>

\* analysis.py:143-189: the document is a crawled page
AnalyzeAsPage ==
    /\ page_result = NoPage
    /\ page_result' = PageOk(ScoreUrl, html).page_data
    /\ UNCHANGED <<pc, request, final_url, seo_data, crawled_urls,
                   pages_to_crawl, crawled_pages, tasks, results, merge_i,
                   fetch_log, response, site, run, first_run, html,
                   seed_result, arg, ret>>

\* analysis.py:190-200: the crawled page could not be loaded
AnalyzeFails ==
    /\ page_result = NoPage
    /\ page_result' = PageError(ScoreUrl).page_data
    /\ UNCHANGED <<pc, request, final_url, seo_data, crawled_urls,
                   pages_to_crawl, crawled_pages, tasks, results, merge_i,
                   fetch_log, response, site, run, first_run, html,
                   seed_result, arg, ret>>

ScoreNext ==
    \/ AnalyzeAsSeed
    \/ AnalyzeAsPage
    \/ AnalyzeFails

ScoreSpec == ScoreInit /\ [][ScoreNext]_vars

(***************************************************************************)
(* Two deep scans of a site whose content does not change and whose        *)
(* fetches all succeed: the same request is sent a second time once the    *)
(* first one has been answered.                                            *)
(***************************************************************************)
\* a site that serves one fixed link list under each path
PinnedSites == [SitePaths -> { {L} : L \in LinkSets }]

\* the (url, score) pairs of a list of page entries
ResultPairs(pages) ==
    { [url |-> pages[i].url, score |-> pages[i].score] : i \in 1..Len(pages) }

RerunInit ==
    /\ Start
    /\ request \in [url : RequestUrls, deep_scan : {TRUE},
                    max_pages : 1..MaxMaxPages]
    /\ site \in PinnedSites
    /\ run = 1
    /\ first_run = {}
    /\ html = NoHtml
    /\ seed_result = NoPage
    /\ page_result = NoPage
    /\ arg = NoArg
    /\ ret = NoRet

\* the first request has been answered; the same request starts again
\* (analysis.py:107-116: every variable of the handler is local to the call)
Rerun ==
    /\ pc = "done"
    /\ run = 1
    /\ first_run' = ResultPairs(response.data.crawledPages)
    /\ run' = 2
    /\ pc' = "start"
    /\ final_url' = NoUrl
    /\ seo_data' = NoData
    /\ crawled_urls' = {}
    /\ pages_to_crawl' = <<>>
    /\ crawled_pages' = <<>>
    /\ tasks' = <<>>
    /\ results' = <<>>
    /\ merge_i' = 0
    /\ fetch_log' = <<>>
    /\ response' = NoResponse
    /\ UNCHANGED <<request, site, html, seed_result, page_result, arg, ret>>

RerunNext ==
    \/ SeedFetch
    \/ SeedOk
    \/ NextBatch
    \/ LoopExit
    \/ TaskOk
    \/ GatherReturn
    \/ MergeResult
    \/ Rerun

RerunSpec == RerunInit /\ [][RerunNext]_vars

(***************************************************************************)
(* Functions called on their own.  arg holds the argument, ret what has    *)
(* been returned; the request handler stands still.                        *)
(***************************************************************************)
Idle ==
    /\ Start
    /\ request = [url |-> ScoreUrl, deep_scan |-> FALSE, max_pages |-> 1]
    /\ site = ChangingSite
    /\ run = 1
    /\ first_run = {}
    /\ html = NoHtml
    /\ seed_result = NoPage
    /\ page_result = NoPage

(***************************************************************************)
(* The two link functions on one document: extract_links                   *)
(* (seo_analyzer.py:259-297) and the link loop of analyze_page             *)
(* (analysis.py:154-177).                                                  *)
(***************************************************************************)
\* href values of a document: empty, "#...", "javascript:...", a page, a page
\* with a fragment, a relative reference with a query, a stylesheet, a font,
\* an image with an upper-case extension, a page of another host
LinkHrefs ==
    { SpecialHref("empty"),
      SpecialHref("anchor"),
      SpecialHref("js"),
      AbsHref("h", "/a", "", ""),
      AbsHref("h", "/a", "", "top"),
      RelHref("/b", "q=1", ""),
      AbsHref("h", "/s.css", "", ""),
      AbsHref("h", "/f.woff", "", ""),
      AbsHref("h", "/I.PNG", "", ""),
      AbsHref("x", "/a", "", "") }

\* n links to n different pages of the host
PlainLinks(n) == { AbsHref("h", "/p" \o ToString(k), "", "") : k \in 1..n }

\* the documents handed to the link functions: any choice of LinkHrefs, or
\* a number of plain links around the cap
LinkDocs ==
    { [NoHtml EXCEPT !.links = L] : L \in SUBSET LinkHrefs }
    \cup { [NoHtml EXCEPT !.links = PlainLinks(n)] :
              n \in (InternalUrlCap - 1)..MaxPlainLinks }

\* the URL the document was fetched from
LinkBase == Url("h", "/", "", "")

LinkInit ==
    /\ Idle
    /\ arg \in { [fn |-> "links", doc |-> d, base_url |-> LinkBase] :
                   d \in LinkDocs }
    /\ ret = [fn |-> "links", extracted |-> FALSE, internalUrls |-> {},
              discovered |-> FALSE, discovered_urls |-> {}]

\* links = extract_links(soup, url); links["internalUrls"]
ExtractLinks ==
    /\ ~ret.extracted
    /\ \E internalUrls \in extract_links(arg.doc, arg.base_url) :
         ret' = [ret EXCEPT !.extracted = TRUE, !.internalUrls = internalUrls]
    /\ UNCHANGED <<pc, request, final_url, seo_data, crawled_urls,
                   pages_to_crawl, crawled_pages, tasks, results, merge_i,
                   fetch_log, response, site, run, first_run, html,
                   seed_result, page_result, arg>>

\* analyze_page(url)["discovered_urls"] for the same document
DiscoverLinks ==
    /\ ~ret.discovered
    /\ ret' = [ret EXCEPT !.discovered = TRUE,
                          !.discovered_urls =
                              PageOk(arg.base_url, arg.doc).discovered_urls]
    /\ UNCHANGED <<pc, request, final_url, seo_data, crawled_urls,
                   pages_to_crawl, crawled_pages, tasks, results, merge_i,
                   fetch_log, response, site, run, first_run, html,
                   seed_result, page_result, arg>>

LinkNext ==
    \/ ExtractLinks
    \/ DiscoverLinks

LinkSpec == LinkInit /\ [][LinkNext]_vars

(***************************************************************************)
(* The two URL normalizations on strings.  A string is the sequence of its *)
(* pieces; the pieces are chosen so that no piece starts or ends inside    *)
(* another, and "startswith" and "split" on pieces are those on            *)
(* characters.                                                             *)
(*   normalize_url (url_fetcher.py:45-66) on what a user types:            *)
(*       "http"  "s"  "://"  " "  "x"                                      *)
(*   the normalization of analyze_page (analysis.py:165-175) on the part   *)
(*   of a link after "https://h":                                          *)
(*       "/a"  "?"  "q"  "#"                                               *)
(***************************************************************************)
Strings(pieces) == UNION { [1..n -> pieces] : n \in 0..MaxUrlLen }

TypedUrls == Strings({"http", "s", "://", " ", "x"})

\* the host ends where the path, the query or the fragment starts
LinkTails ==
    { s \in Strings({"/a", "?", "q", "#"}) : s # <<>> => Head(s) # "q" }

RECURSIVE strip(_)
\* url.strip()
strip(s) ==
    IF s = <<>> THEN s
    ELSE IF Head(s) = " " THEN strip(Tail(s))
    ELSE IF s[Len(s)] = " " THEN strip(SubSeq(s, 1, Len(s) - 1))
    ELSE s

\* "".join(url.split())
RemoveWhitespace(s) ==
    LET black(c) == c # " "
    IN  SelectSeq(s, black)

StartsWith(s, prefix) ==
    Len(s) >= Len(prefix) /\ SubSeq(s, 1, Len(prefix)) = prefix

\* mutant: no string counts as having a scheme
HasSchemeNever(s) == FALSE

\* url.startswith(("http://", "https://"))
HasScheme(s) ==
    \/ StartsWith(s, <<"http", "://">>)
    \/ StartsWith(s, <<"http", "s", "://">>)

normalize_url(url) ==
    IF strip(url) = <<>> THEN <<>>
    ELSE IF HasScheme(RemoveWhitespace(strip(url)))
         THEN RemoveWhitespace(strip(url))
         ELSE <<"http", "s", "://">> \o RemoveWhitespace(strip(url))

\* the position of the first piece c of s, Len(s) + 1 when there is none
First(s, c) ==
    IF \E i \in 1..Len(s) : s[i] = c
    THEN CHOOSE i \in 1..Len(s) : s[i] = c /\ \A j \in 1..(i - 1) : s[j] # c
    ELSE Len(s) + 1

\* urlparse of "https://h" followed by tail: the fragment is what follows
\* the first "#", the query what lies between the first "?" before it and it
urlparse(tail) ==
    LET url == SubSeq(tail, 1, First(tail, "#") - 1)
    IN  [scheme |-> "https", netloc |-> "h",
         path |-> SubSeq(url, 1, First(url, "?") - 1),
         query |-> SubSeq(url, First(url, "?") + 1, Len(url)),
         fragment |-> SubSeq(tail, First(tail, "#") + 1, Len(tail))]

\* analysis.py:172-174, the string clean_url without its "https://h"
CleanString(parsed) ==
    IF parsed.query # <<>>
    THEN parsed.path \o <<"?">> \o parsed.query
    ELSE parsed.path

\* analysis.py:166-174 for a link that is absolute already
CleanLink(tail) == CleanString(urlparse(tail))

UrlInit ==
    /\ Idle
    /\ arg \in { [fn |-> "normalize_url", url |-> u] : u \in TypedUrls }
               \cup { [fn |-> "clean_url", url |-> u] : u \in LinkTails }
    /\ ret = [fn |-> arg.fn, calls |-> 0, in |-> <<>>, out |-> arg.url]

\* normalize_url is applied to the string, then to what it returned
NormalizeUrl ==
    /\ arg.fn = "normalize_url"
    /\ ret.calls < 2
    /\ ret' = [ret EXCEPT !.calls = ret.calls + 1, !.in = ret.out,
                          !.out = normalize_url(ret.out)]
    /\ UNCHANGED <<pc, request, final_url, seo_data, crawled_urls,
                   pages_to_crawl, crawled_pages, tasks, results, merge_i,
                   fetch_log, response, site, run, first_run, html,
                   seed_result, page_result, arg>>

\* the link normalization is applied to the link, then to what it returned
NormalizeLink ==
    /\ arg.fn = "clean_url"
    /\ ret.calls < 2
    /\ ret' = [ret EXCEPT !.calls = ret.calls + 1, !.in = ret.out,
                          !.out = CleanLink(ret.out)]
    /\ UNCHANGED <<pc, request, final_url, seo_data, crawled_urls,
                   pages_to_crawl, crawled_pages, tasks, results, merge_i,
                   fetch_log, response, site, run, first_run, html,
                   seed_result, page_result, arg>>

UrlNext ==
    \/ NormalizeUrl
    \/ NormalizeLink

UrlSpec == UrlInit /\ [][UrlNext]_vars

(***************************************************************************)
(* extract_keywords (seo_analyzer.py:300-343) on one document.  A text is  *)
(* the set of the words in it, as written; the document has the text of    *)
(* its <title>, of the content attribute of <meta name="description">, of  *)
(* its <h1> elements and of the rest of its body.                          *)
(***************************************************************************)
\* words as they stand in a document
Written == {"seo", "SEOUL", "tips"}

\* str.lower()
LowerWord(w) ==
    CASE w = "SEOUL" -> "seoul"
      [] OTHER       -> w

LowerText(text) == { LowerWord(w) : w \in text }

\* "word in other" for two lower-case words: word is a substring of other
Substring(word, other) ==
    \/ word = other
    \/ word = "seo" /\ other = "seoul"

\* "word in text" for a lower-case word and the string of a lower-case text
InText(word, text) == \E other \in text : Substring(word, other)

KeywordDocs ==
    [title : SUBSET Written, description : SUBSET Written,
     h1 : SUBSET Written, body : SUBSET Written]

\* seo_analyzer.py:303-304, the script, style, ..., link and meta elements
\* are removed from the soup: it has no <meta name="description"> any more
Decompose(doc) == [doc EXCEPT !.description = {}]

\* the keywords with their flags.  The words are those of the text that is
\* left (title, h1 and body); none is a stop word and there are fewer than
\* ten, so each of them is a keyword.
extract_keywords(doc) ==
    LET soup == Decompose(doc)
        words == LowerText(soup.title \cup soup.h1 \cup soup.body)
        title == LowerText(soup.title)
        description == LowerText(soup.description)
        h1_text == LowerText(soup.h1)
    IN  { [word |-> w,
           inTitle |-> InText(w, title),
           inDescription |-> InText(w, description),
           inH1 |-> InText(w, h1_text)] : w \in words }

KeywordInit ==
    /\ Idle
    /\ arg \in { [fn |-> "extract_keywords", doc |-> d] : d \in KeywordDocs }
    /\ ret = [fn |-> "extract_keywords", returned |-> FALSE, keywords |-> {}]

ExtractKeywords ==
    /\ ~ret.returned
    /\ ret' = [ret EXCEPT !.returned = TRUE,
                          !.keywords = extract_keywords(arg.doc)]
    /\ UNCHANGED <<pc, request, final_url, seo_data, crawled_urls,
                   pages_to_crawl, crawled_pages, tasks, results, merge_i,
                   fetch_log, response, site, run, first_run, html,
                   seed_result, page_result, arg>>

KeywordNext == ExtractKeywords

KeywordSpec == KeywordInit /\ [][KeywordNext]_vars

(***************************************************************************)
(* Cancellation.  The handler is a coroutine: while it is suspended in an  *)
(* await (the seed fetch, analysis.py:117, or gather, analysis.py:213) its *)
(* task can be cancelled.  CancelledError is raised at the await and       *)
(* gather cancels the tasks still in flight.  From Python 3.8 on it is no  *)
(* Exception: "except Exception" (analysis.py:236) lets it pass and the    *)
(* handler is left without a return value.  Before 3.8 it is an Exception  *)
(* and the handler answers 500.  The model allows both.  The variables     *)
(* keep their last values.                                                 *)
(***************************************************************************)
\* mutant: the results that had arrived are committed before the handler
\* is left
CancelCommits ==
    /\ pc = "gather"
    /\ pc' = "cancelled"
    /\ LET resolved(result) == result.page_data.status # "pending"
           arrived == SelectSeq(results, resolved)
       IN  crawled_pages' =
             crawled_pages \o [i \in 1..Len(arrived) |-> arrived[i].page_data]
    /\ UNCHANGED <<request, final_url, seo_data, crawled_urls, pages_to_crawl,
                   tasks, results, merge_i, fetch_log, response>>
    /\ UNCHANGED aux

\* the handler's task is cancelled while it awaits
Cancel ==
    /\ pc \in {"seed_fetch", "gather"}
    /\ pc' = "cancelled"
    /\ response' \in {NoResponse,
                      [kind |-> "error", status_code |-> 500, data |-> NoData]}
    /\ UNCHANGED <<request, final_url, seo_data, crawled_urls, pages_to_crawl,
                   crawled_pages, tasks, results, merge_i, fetch_log>>
    /\ UNCHANGED aux

CancelNext ==
    \/ Next
    \/ Cancel

CancelSpec == Init /\ [][CancelNext]_vars

(***************************************************************************)
(* Properties of the crawl.                                                *)
(***************************************************************************)
Urls(pages) == { pages[i].url : i \in 1..Len(pages) }

HasError(pages) == \E i \in 1..Len(pages) : pages[i].status = "error"

\* the number of fetches that have been issued and have not resolved
FetchesInFlight ==
    Cardinality(InFlight) + (IF pc = "seed_fetch" THEN 1 ELSE 0)

\* C1: in every state of a deep scan the number of entries of crawled_pages
\* is at most max_pages, for every max_pages the request model accepts.
C1_ResultsWithinMaxPages ==
    request.deep_scan => Len(crawled_pages) <= request.max_pages

\* C2: no two entries of crawled_pages have the same url.
C2_NoDuplicateResults ==
    Cardinality(Urls(crawled_pages)) = Len(crawled_pages)

\* a URL that was queued again while its own fetch was in flight (a page of
\* its batch links to it) has been crawled, is still queued, and the crawl
\* goes on
C2_Witness ==
    /\ pc = "loop"
    /\ LoopCond(pages_to_crawl, crawled_pages, request.max_pages)
    /\ \E u \in Range(pages_to_crawl) : u \in Urls(crawled_pages)

\* C3: a page whose fetch or analysis raises yields the error result for its
\* own URL, every page of the batch yields its own result, and the crawl is
\* ended by nothing but an empty queue or the page cap.
C3_FailureIsolated ==
    /\ Len(results) = Len(tasks)
    /\ \A i \in 1..Len(results) :
         /\ results[i].page_data.url = tasks[i]
         /\ results[i].page_data.status \in {"pending", "200", "error"}
    /\ \A i \in 1..Len(crawled_pages) :
         crawled_pages[i].status = "error" =>
            crawled_pages[i] = [url |-> crawled_pages[i].url,
                                status |-> "error", score |-> 0, issues |-> 1,
                                title |-> "Failed to load"]
    /\ (request.deep_scan /\ pc = "done") =>
          ~LoopCond(pages_to_crawl, crawled_pages, request.max_pages)
    /\ (Len(fetch_log) > 1 /\ pc \in {"done", "failed"}) =>
          /\ response.kind = "ok"
          /\ response.data.crawledPages = crawled_pages

\* a batch after the one in which a page failed and its sibling loaded
C3_Witness ==
    /\ pc = "gather"
    /\ InFlight # {}
    /\ HasError(crawled_pages)
    /\ \E i \in 2..Len(crawled_pages) : crawled_pages[i].status = "200"

\* C4: a deep scan with max_pages = 1 fetches the seed only and returns
\* exactly the seed's result.
C4_MaxPagesOne ==
    (request.deep_scan /\ request.max_pages = 1) =>
       /\ Len(fetch_log) <= 1
       /\ pc = "done" =>
             /\ Len(response.data.crawledPages) = 1
             /\ response.data.crawledPages[1].url = final_url

C4_Witness ==
    /\ pc = "done"
    /\ request.deep_scan
    /\ request.max_pages = 1
    /\ Cardinality(seo_data.internalUrls) >= 2

\* C5: at most batch_size fetches are in flight, and a fetch is issued only
\* when no earlier fetch is still in flight.
C5_BoundedConcurrency ==
    [][/\ FetchesInFlight <= batch_size
       /\ fetch_log' # fetch_log => FetchesInFlight = 0]_vars

\* a full batch in flight while more URLs are queued
C5_Witness ==
    /\ pc = "gather"
    /\ Cardinality(InFlight) = batch_size
    /\ Len(pages_to_crawl) > 0

Terminated == pc \in {"done", "failed"}

\* C6: every request terminates; on a deep scan the batch loop is left after
\* finitely many iterations, whatever the pages link to and whichever fail.
C6_CrawlTerminates == <>Terminated

\* an iteration that appends nothing: every URL of the batch was already
\* crawled, the queue only shrank
C6_Witness ==
    /\ pc = "gather"
    /\ Len(tasks) = 0
    /\ HasError(crawled_pages)

\* C7: when the merge of a batch has completed, every url of crawled_pages
\* is in crawled_urls.
C7_ResultsAreVisited ==
    pc \in {"loop", "gather", "done"} => Urls(crawled_pages) \subseteq crawled_urls

C7_Witness ==
    /\ pc = "loop"
    /\ HasError(crawled_pages)
    /\ Len(crawled_pages) >= 3

\* C8: every URL of crawled_urls is in normalized form: scheme, host, path
\* and query, no fragment.
C8_VisitedNormalized ==
    \A u \in crawled_urls : u = clean_url(u)

\* C9: on a deep scan the first entry of crawled_pages is the seed's result
\* (the final URL of the seed fetch, status "200"), it is there before any
\* other page is fetched and stays first, and the seed URL is in crawled_urls
\* from the start of the crawl.
C9_SeedFirst ==
    /\ Len(fetch_log) > 1 => pc \notin {"start", "seed_fetch", "failed"}
    /\ (request.deep_scan /\ pc \notin {"start", "seed_fetch", "failed"}) =>
          /\ Len(crawled_pages) >= 1
          /\ crawled_pages[1].url = final_url
          /\ final_url = [request.url EXCEPT !.path = "/"]
          /\ crawled_pages[1].status = "200"
          /\ crawled_pages[1].score = seo_data.score
          /\ crawled_pages[1].issueDetails = seo_data.issues
          /\ final_url \in crawled_urls

\* the seed was redirected and later pages, one of them failing, were merged
C9_Witness ==
    /\ pc = "done"
    /\ request.deep_scan
    /\ final_url # request.url
    /\ Len(crawled_pages) >= 3
    /\ HasError(crawled_pages)

\* C10: a failing seed fetch ends the request in a single failure, with no
\* batch issued and no aggregate returned; a request fails in no other way.
C10_OnlySeedFailureIsFatal ==
    /\ pc = "failed" =>
          /\ response = [kind |-> "error", status_code |-> 500, data |-> NoData]
          /\ Len(fetch_log) = 1
          /\ crawled_pages = <<>>
    /\ response.kind = "error" => pc = "failed"
    /\ (HasError(crawled_pages) /\ pc = "done") => response.kind = "ok"

C10_Witness ==
    /\ pc = "failed"
    /\ request.deep_scan
    /\ response.kind = "error"

(***************************************************************************)
(* Properties of the scorers.                                              *)
(***************************************************************************)
\* the deduction the rule table attaches to an issue label
LabelPenalty(label, doc) ==
    CASE label = "Missing Title Tag"        -> 20
      [] label = "Title Too Long"           -> 5
      [] label = "Title Too Short"          -> 5
      [] label = "Missing Meta Description" -> 20
      [] label = "Description Too Long"     -> 3
      [] label = "Description Too Short"    -> 5
      [] label = "Missing H1 Heading"       -> 15
      [] label = "Multiple H1 Tags"         -> 5
      [] label = "Missing Alt Text"         -> Min(10, 2 * doc.withoutAlt)
      [] label = "Thin Content"             -> 10
      [] label = "Missing Canonical Tag"    -> 5
      [] OTHER                              -> 0

\* the place of a rule group in the evaluation order
GroupRank(type) ==
    CASE type = "title"       -> 1
      [] type = "description" -> 2
      [] type = "h1"          -> 3
      [] type = "images"      -> 4
      [] type = "content"     -> 5
      [] type = "canonical"   -> 6
      [] OTHER                -> 0

RECURSIVE SumPenalties(_, _)
SumPenalties(issues, doc) ==
    IF issues = <<>> THEN 0
    ELSE LabelPenalty(Head(issues).label, doc) + SumPenalties(Tail(issues), doc)

\* the sum of the deductions of the rule table that apply to a document
TableDeductions(doc) ==
      (IF doc.title = "" THEN 20
       ELSE IF Len(doc.title) > 60 THEN 5
       ELSE IF Len(doc.title) < 10 THEN 5 ELSE 0)
    + (IF doc.description = "" THEN 20
       ELSE IF Len(doc.description) > 160 THEN 3
       ELSE IF Len(doc.description) < 50 THEN 5 ELSE 0)
    + (IF doc.h1 = 0 THEN 15 ELSE IF doc.h1 > 1 THEN 5 ELSE 0)
    + (IF doc.withoutAlt > 0 THEN Min(10, 2 * doc.withoutAlt) ELSE 0)
    + (IF doc.word_count < 300 THEN 10 ELSE 0)
    + (IF doc.canonical THEN 0 ELSE 5)

Scored(page) == page.status = "200"

\* C11: the page entry of a document has the score of the rule table and the
\* same score, issue count and issue list whether the document is analyzed as
\* the seed or as a crawled page.
C11_SeedAndCrawledAgree ==
    /\ Scored(seed_result) => seed_result.score = 100 - TableDeductions(html)
    /\ Scored(page_result) => page_result.score = 100 - TableDeductions(html)
    /\ Scored(seed_result) /\ Scored(page_result) =>
          /\ seed_result.score = page_result.score
          /\ seed_result.issues = page_result.issues
          /\ seed_result.issueDetails = page_result.issueDetails

\* C12: the score calculate_seo_score gives a document is 100 minus the sum
\* of the deductions of the rule table that apply to its signals; a value
\* exactly at a limit (60, 10, 160, 50, 300) incurs no deduction.
C12_ScoreIsTableSum ==
    Scored(seed_result) => seed_result.score = 100 - TableDeductions(html)

\* a title of 60 and a description of 50 characters, 300 words, one h1,
\* 3 images without alt and no canonical: 100 - 6 - 5
C12_Witness ==
    /\ Scored(seed_result)
    /\ Len(html.title) = 60
    /\ Len(html.description) = 50
    /\ html.h1 = 1
    /\ html.withoutAlt = 3
    /\ html.word_count = 300
    /\ ~html.canonical
    /\ seed_result.score = 89

\* the issue list of a page entry has at most one issue per rule group, in
\* the order of the groups, and the deductions of its issues make up the
\* distance of the score from 100
IssuesMatchScore(page) ==
    /\ \A i, j \in 1..Len(page.issueDetails) :
          i < j => GroupRank(page.issueDetails[i].type)
                     < GroupRank(page.issueDetails[j].type)
    /\ \A i \in 1..Len(page.issueDetails) :
          GroupRank(page.issueDetails[i].type) > 0
    /\ page.issues = Len(page.issueDetails)
    /\ page.score = 100 - SumPenalties(page.issueDetails, html)

\* C13: the issue list of either scorer holds exactly one issue per rule that
\* fired (the deductions of the listed issues add up to the whole deduction)
\* in the order title, description, h1, images, content, canonical.
C13_IssuesInRuleOrder ==
    /\ Scored(seed_result) => IssuesMatchScore(seed_result)
    /\ Scored(page_result) => IssuesMatchScore(page_result)

\* a title of 70 characters and no description, nothing else wrong: "Title
\* Too Long" precedes "Missing Meta Description", the score is 75
C13_Witness ==
    /\ Scored(seed_result)
    /\ Scored(page_result)
    /\ Len(html.title) = 70
    /\ html.description = ""
    /\ Len(seed_result.issueDetails) = 2
    /\ seed_result.issueDetails[1].label = "Title Too Long"
    /\ seed_result.issueDetails[2].label = "Missing Meta Description"
    /\ seed_result.score = 75
    /\ page_result.issueDetails = seed_result.issueDetails
    /\ page_result.score = 75

\* the document has no title, no meta description and no h1
Bare(doc) == doc.title = "" /\ doc.description = "" /\ doc.h1 = 0

\* the issue list starts with the three High issues and the score is 45 less
\* the deductions of the issues that follow them
BareScored(page) ==
    /\ Len(page.issueDetails) >= 3
    /\ SubSeq(page.issueDetails, 1, 3) =
          << Issue("title", "Missing Title Tag", "High"),
             Issue("description", "Missing Meta Description", "High"),
             Issue("h1", "Missing H1 Heading", "High") >>
    /\ page.score =
          45 - SumPenalties(SubSeq(page.issueDetails, 4,
                                   Len(page.issueDetails)), html)

\* C14: for a document with no title, no meta description and no h1 the
\* three rules deduct 55 and the issue list of either scorer starts with the
\* High issues of title, description and h1, in this order.
C14_BarePageScores45 ==
    Bare(html) =>
        /\ Scored(seed_result) => BareScored(seed_result)
        /\ Scored(page_result) => BareScored(page_result)

\* a bare document with no image lacking alt text, 300 words and a canonical
\* link has been scored both ways: 45 and three issues each
C14_Witness ==
    /\ Bare(html)
    /\ html.withoutAlt = 0
    /\ html.word_count = 300
    /\ html.canonical
    /\ Scored(seed_result)
    /\ Scored(page_result)
    /\ seed_result.score = 45
    /\ page_result.score = 45
    /\ seed_result.issues = 3

\* C15: the score of every page entry is an integer from 0 to 100, for any
\* number of images without alt text and any combination of fired rules.
C15_ScoreInRange ==
    /\ seed_result # NoPage => seed_result.score \in 0..100
    /\ page_result # NoPage => page_result.score \in 0..100

\* a document with every rule fired and the largest number of images without
\* alt text has been scored as the seed, and as a page that failed to load
C15_Witness ==
    /\ Bare(html)
    /\ html.withoutAlt = MaxWithoutAlt
    /\ html.word_count = 0
    /\ ~html.canonical
    /\ Scored(seed_result)
    /\ seed_result.score = 20
    /\ page_result.status = "error"
    /\ page_result.score = 0

(***************************************************************************)
(* Properties of the queue, the fetches and the order of the results.      *)
(***************************************************************************)
NoDup(s) == \A i, j \in 1..Len(s) : i # j => s[i] # s[j]

IsPrefix(s, t) == Len(s) <= Len(t) /\ s = SubSeq(t, 1, Len(s))

PageUrls(pages) == [i \in 1..Len(pages) |-> pages[i].url]

\* C16 as stated: whenever a batch is about to be taken, pages_to_crawl holds
\* no URL twice and no URL that is in crawled_urls.
C16_FrontierDisjointFromVisited ==
    pc = "loop" =>
        /\ NoDup(pages_to_crawl)
        /\ Range(pages_to_crawl) \cap crawled_urls = {}

\* C16, amended: pages_to_crawl never holds a URL twice; a URL is appended
\* only while it is not in crawled_urls; a queued URL that has been crawled
\* in the meantime (a page of its own batch linked to it) stays queued and
\* is left out of the tasks when its batch is built.
C16_FrontierFreshWhenAppended ==
    [][ /\ NoDup(pages_to_crawl')
        /\ \A u \in Range(pages_to_crawl') \ Range(pages_to_crawl) :
              u \notin crawled_urls'
        /\ pc = "loop" /\ pc' = "gather" =>
              \A i \in 1..Len(tasks') : tasks'[i] \notin crawled_urls ]_vars

\* a batch has been built from a queue that held nothing but crawled URLs:
\* no task was started and no page failed
C16_Witness ==
    /\ pc = "gather"
    /\ Len(tasks) = 0
    /\ Len(crawled_pages) = 3
    /\ ~HasError(crawled_pages)
    /\ Len(fetch_log) = 3

\* C17: no URL is passed to fetch_url_content twice within one request.
C17_NoRefetch == NoDup(fetch_log)

\* C18: every URL in crawled_urls and in crawled_pages is the final URL the
\* fetcher returns for it, and no two entries of crawled_pages were fetched
\* from the same final URL.
C18_ResultsKeyedOnFinalUrl ==
    /\ \A u \in crawled_urls : FinalUrl(u) = u
    /\ \A i \in 1..Len(crawled_pages) :
          FinalUrl(crawled_pages[i].url) = crawled_pages[i].url
    /\ \A i, j \in 1..Len(crawled_pages) :
          i # j => FinalUrl(crawled_pages[i].url) # FinalUrl(crawled_pages[j].url)

\* C20: the seed's entry is first and the entries after it follow the order
\* in which their URLs were handed to the fetcher; a batch is taken from the
\* front of pages_to_crawl, in queue order, and new URLs go to its tail.
C20_ResultsInDequeueOrder ==
    [][ /\ Len(crawled_pages') > 0 =>
              /\ crawled_pages'[1].url = final_url'
              /\ IsPrefix(Tail(PageUrls(crawled_pages')), Tail(fetch_log'))
        /\ IsPrefix(crawled_pages, crawled_pages')
        /\ pc = "loop" /\ pc' = "gather" =>
              \E k \in 0..Len(pages_to_crawl) :
                /\ pages_to_crawl' = SubSeq(pages_to_crawl, k + 1,
                                            Len(pages_to_crawl))
                /\ LET fresh(u) == u \notin crawled_urls
                   IN  tasks' = SelectSeq(SubSeq(pages_to_crawl, 1, k), fresh)
        /\ pc = "merge" => IsPrefix(pages_to_crawl, pages_to_crawl') ]_vars

\* two batches have been crawled and merged: four entries, the last one
\* fetched in the second batch from a URL that a crawled page discovered
C20_Witness ==
    /\ pc = "loop"
    /\ Len(crawled_pages) = 4
    /\ Len(fetch_log) = 4
    /\ crawled_pages[4].url = fetch_log[4]
    /\ crawled_pages[4].url \notin seo_data.internalUrls

\* C19: the second of two deep scans of an unchanged site, with the same seed
\* URL and the same max_pages and no failed fetch, returns the same set of
\* result URLs and the same score for each of them as the first.
C19_RerunsAgree ==
    run = 2 /\ pc = "done" =>
        ResultPairs(response.data.crawledPages) = first_run

(***************************************************************************)
(* Properties of the tasks, the aggregate and the page entries.            *)
(***************************************************************************)
\* C21: while the tasks of a batch are in flight no step changes
\* crawled_urls, pages_to_crawl or crawled_pages; after the seed has been
\* analyzed crawled_urls and crawled_pages change only in the merge loop,
\* which runs when no task is in flight (pages_to_crawl is also cut when a
\* batch is taken, before its tasks start).
C21_TasksLeaveCrawlStateAlone ==
    [][ /\ pc = "gather" =>
              UNCHANGED <<crawled_urls, pages_to_crawl, crawled_pages>>
        /\ /\ pc # "seed_fetch"
           /\ \/ crawled_urls' # crawled_urls
              \/ crawled_pages' # crawled_pages
              \/ Len(pages_to_crawl') > Len(pages_to_crawl)
           => pc = "merge" /\ InFlight = {} ]_vars

\* one task of a batch of two has returned a page with links to crawl while
\* the other fetch is in flight
C21_Witness ==
    /\ pc = "gather"
    /\ Len(tasks) = 2
    /\ Cardinality(InFlight) = 1
    /\ \E i \in 1..Len(results) :
          /\ results[i].page_data.status = "200"
          /\ results[i].discovered_urls \ crawled_urls # {}

\* C26: without deep_scan the seed is the only fetch and the aggregate has
\* an empty crawledPages; with deep_scan crawledPages is the list of the
\* crawl's page entries, the seed's first.
C26_CrawledPagesOnlyOnDeepScan ==
    pc = "done" =>
        IF request.deep_scan
        THEN /\ response.data.crawledPages = crawled_pages
             /\ Len(response.data.crawledPages) >= 1
             /\ response.data.crawledPages[1].url = final_url
             /\ response.data.crawledPages[1].score = response.data.score
        ELSE /\ fetch_log = <<request.url>>
             /\ response.data.crawledPages = <<>>

\* a request without deep_scan has been answered for a seed page that has
\* internal links
C26_Witness ==
    /\ pc = "done"
    /\ ~request.deep_scan
    /\ request.max_pages > 1
    /\ Cardinality(response.data.internalUrls) >= 2
    /\ response.kind = "ok"

\* C28: for max_pages >= 1 the number of fetches of a deep scan, the seed's
\* included, is at most max_pages + batch_size - 1.
C28_FetchesWithinOneBatchOfCap ==
    request.max_pages >= 1 =>
        Len(fetch_log) <= request.max_pages + batch_size - 1

\* the last batch was full and went past the cap: max_pages + batch_size - 1
\* fetches for max_pages entries
C28_Witness ==
    /\ pc = "done"
    /\ request.max_pages >= 2
    /\ Len(fetch_log) = request.max_pages + batch_size - 1
    /\ Len(crawled_pages) = request.max_pages

\* C29: every entry of crawled_pages carries an issue list, and its issue
\* count is the length of that list.
C29_IssueCountMatchesList ==
    \A i \in 1..Len(crawled_pages) :
        /\ "issueDetails" \in DOMAIN crawled_pages[i]
        /\ crawled_pages[i].issues = Len(crawled_pages[i].issueDetails)

\* C22: when the request is cancelled while the tasks of a batch are in
\* flight, no URL of that batch is in crawled_urls or in an entry of
\* crawled_pages, and nothing has been returned.
C22_CancelCommitsNothing ==
    pc = "cancelled" =>
        /\ \A i \in 1..Len(tasks) :
              /\ tasks[i] \notin crawled_urls
              /\ tasks[i] \notin Urls(crawled_pages)
        /\ response.kind # "ok"
        /\ response.data = NoData
        /\ seo_data.crawledPages = <<>>

\* the request was cancelled after one task of a batch of two had returned
\* its page
C22_Witness ==
    /\ pc = "cancelled"
    /\ Len(tasks) = 2
    /\ Cardinality(InFlight) = 1
    /\ \E i \in 1..Len(results) : results[i].page_data.status = "200"

(***************************************************************************)
(* Properties of the link functions.                                       *)
(***************************************************************************)
\* C23: for every document and base URL the set of URLs the crawl's link
\* discovery (analyze_page) produces equals the set extract_links selects.
C23_DiscoveryEqualsExtraction ==
    ret.extracted /\ ret.discovered =>
        ret.discovered_urls = ret.internalUrls

\* C24: internalUrls of extract_links has at most 25 elements, each on the
\* base URL's host, without fragment, and with no path ending in one of the
\* asset extensions jpg, jpeg, png, gif, css, js, pdf, svg, ico, xml, woff,
\* woff2, ttf, eot.
C24_InternalUrlsWellFormed ==
    ret.extracted =>
        /\ Cardinality(ret.internalUrls) <= InternalUrlCap
        /\ \A u \in ret.internalUrls :
              /\ u.netloc = arg.base_url.netloc
              /\ u.fragment = ""
              /\ ~AssetMatch(PageAssetExts, u.path)

\* C25: both URL normalizations are idempotent: applied to its own output,
\* the link normalization of the crawl returns it unchanged, and so does
\* normalize_url.
C25_NormalizationIdempotent ==
    ret.calls = 2 => ret.out = ret.in

\* a typed string with blanks and no scheme has been normalized twice, and
\* the first call changed it
C25_Witness ==
    /\ arg.fn = "normalize_url"
    /\ arg.url = <<" ", "x", " ", "x">>
    /\ ret.calls = 2
    /\ ret.out = <<"http", "s", "://", "x", "x">>

\* C27: for every keyword extract_keywords returns, inDescription is true
\* exactly when the word occurs, whatever the case, as a substring of the
\* document's meta description, inTitle likewise for the title and inH1 for
\* the h1 text.
C27_KeywordFlagsMatchDocument ==
    ret.returned =>
        \A k \in ret.keywords :
            /\ k.inTitle = InText(k.word, LowerText(arg.doc.title))
            /\ k.inDescription = InText(k.word, LowerText(arg.doc.description))
            /\ k.inH1 = InText(k.word, LowerText(arg.doc.h1))

\* C30: the clamp of the scorers never acts: the deductions of
\* calculate_seo_score add up to at most 80 and its score is at least 20,
\* those of extract_seo_data to at most 65 and its score is at least 35.
C30_ClampNeverActive ==
    /\ Scored(seed_result) =>
          /\ SumPenalties(seed_result.issueDetails, html) <= 80
          /\ seed_result.score = 100 - SumPenalties(seed_result.issueDetails, html)
          /\ seed_result.score >= 20
    /\ Scored(page_result) =>
          /\ SumPenalties(page_result.issueDetails, html) <= 65
          /\ page_result.score = 100 - SumPenalties(page_result.issueDetails, html)
          /\ page_result.score >= 35

\* a document on which every rule group fires with its largest deduction
\* has been scored both ways: 20 and 35
C30_Witness ==
    /\ Scored(seed_result)
    /\ Scored(page_result)
    /\ Len(seed_result.issueDetails) = 6
    /\ Len(page_result.issueDetails) = 4
    /\ seed_result.score = 20
    /\ page_result.score = 35

====
